---- MODULE Spec2Model ----
(***************************************************************************)
(* Command & telemetry subsystem of the CubeSat 1U STM32 firmware:         *)
(* the frame codec (communication.c), the checksum and the command         *)
(* dispatcher (main.c), the four FreeRTOS tasks with their two queues, the  *)
(* receive-complete interrupt and the independent watchdog.                 *)
(*                                                                         *)
(* Packets are kept as the bytes the packed structs of main.h lay out in    *)
(* memory (little-endian Cortex-M), so that checksums and byte-for-byte     *)
(* comparisons are computed on what the code computes them on.              *)
(***************************************************************************)
EXTENDS Integers, Sequences, FiniteSets, TLC

(***************************************************************************)
(* Program constants (main.h, communication.h, main.c)                     *)
(***************************************************************************)
STATE_BOOT == 0
STATE_IDLE == 1
STATE_NOMINAL == 2
STATE_SAFE == 3
STATE_LOW_POWER == 4
STATE_EMERGENCY == 5
STATE_IMAGE_CAPTURE == 6
STATE_DATA_TX == 7

CMD_PING == 1
CMD_GET_TELEMETRY == 2
CMD_CAPTURE_IMAGE == 3
CMD_SET_MODE == 4
CMD_RESET == 5
CMD_TRANSMIT_FILE == 6
CMD_UPDATE_FIRMWARE == 7
CMD_SET_SCHEDULE == 8
CMD_BEACON == 9

ERROR_UART == 3
ERROR_TEMPERATURE == 6
\* main.c:513 uses ERROR_UNKNOWN_COMMAND, which no header of the repository
\* defines; it is taken as the next code after ERROR_MEMORY (0x08).
ERROR_UNKNOWN_COMMAND == 9

BATTERY_CRITICAL == 3400

SYNC1 == 170                     \* 0xAA
SYNC2_TELEMETRY == 85            \* 0x55
SYNC2_COMMAND == 86              \* 0x56
PING_ACK == 87
BEACON_SYNC2 == 89                   \* 0x57
PARAM_CAPACITY == 64             \* uint8_t parameters[64]
TELEMETRY_QUEUE_LEN == 10
COMMAND_QUEUE_LEN == 5
UART_RX_BUFFER_SIZE == 256
WatchdogPeriod == 5              \* vTaskDelay(pdMS_TO_TICKS(5000)), in seconds
\* IWDG window in whole seconds: (Reload 4095 + 1) * prescaler 64 / 32 kHz LSI
\* = 8192 ms
IwdgTimeout == 8

\* sizeof of the packed structs: 7 header bytes + parameters + checksum,
\* and the 68 covered bytes of a telemetry packet + checksum.
SizeofCommandPacket == 7 + PARAM_CAPACITY + 2
SizeofTelemetryPacket == 70

(***************************************************************************)
(* Bounds of the model                                                     *)
(***************************************************************************)
MaxRxPackets == 2                \* whole packets the link delivers in a run
MaxFrames == 2                   \* frames the link starts byte by byte in a run
MaxNoise == 2                    \* stray bytes the link delivers in a run
MaxSensorCycles == 1             \* turns of the SensorTask loop in a run
MaxPulses == 1                   \* radiation pulses counted in a run
MaxWatchdogTurns == 1            \* WatchdogTask turns after which uptime stops counting
MaxTaskCommands == 2             \* commands received while all tasks interleave
MaxHealthCycles == 2             \* SensorTask turns while the thresholds are watched
MaxModeCycles == 1               \* SensorTask turns while commands change the mode
MaxTick == 60001                 \* HAL_GetTick() stops advancing here (ms)
MaxRadPulses == 37               \* radiation pulses while the count rate is watched
MaxQueueCycles == 11             \* SensorTask turns while the queues fill
MaxQueueCommands == 6            \* packets received while the queues fill
MaxLiveCycles == 2               \* SensorTask turns while progress is watched
MaxBootCycles == 2               \* SensorTask turns while no command arrives
MaxResetCommands == 4            \* packets received around a Reset command
MaxPollTick == 180003            \* HAL_GetTick() stops here while the poll is watched

(***************************************************************************)
(* Bytes                                                                   *)
(***************************************************************************)
Byte == 0..255

LE16(x) == <<x % 256, (x \div 256) % 256>>
LE32(x) == <<x % 256, (x \div 256) % 256, (x \div 65536) % 256, (x \div 16777216) % 256>>

\* uint32_t counters that may wrap are kept as their four bytes, low byte
\* first; arithmetic on them goes by 16-bit halves with carry and borrow.
U32Low(b) == b[1] + 256 * b[2]
U32High(b) == b[3] + 256 * b[4]
U32FromHalves(lo, hi) == <<lo % 256, lo \div 256, hi % 256, hi \div 256>>

\* b + 1 modulo 2^32
U32Increment(b) ==
    IF U32Low(b) = 65535 THEN U32FromHalves(0, (U32High(b) + 1) % 65536)
    ELSE U32FromHalves(U32Low(b) + 1, U32High(b))

\* (a subtraction that forgets the borrow between the halves)
U32Minus_NoBorrow(a, b) ==
    U32FromHalves((U32Low(a) - U32Low(b) + 65536) % 65536,
                  (U32High(a) - U32High(b) + 65536) % 65536)

\* a - b modulo 2^32
U32Minus(a, b) ==
    LET borrow == IF U32Low(a) < U32Low(b) THEN 1 ELSE 0
    IN U32FromHalves((U32Low(a) - U32Low(b) + 65536) % 65536,
                     (U32High(a) - U32High(b) - borrow + 65536) % 65536)
U16At(b, i) == b[i] + 256 * b[i + 1]

Zeros(n) == [i \in 1..n |-> 0]

BitAnd8(a, b) ==
    LET RECURSIVE And(_, _, _)
        And(x, y, n) ==
            IF n = 0 THEN 0
            ELSE (IF x % 2 = 1 /\ y % 2 = 1 THEN 1 ELSE 0) + 2 * And(x \div 2, y \div 2, n - 1)
    IN And(a, b, 8)

\* a | b on uint8_t
BitOr8(a, b) == a + b - BitAnd8(a, b)

(***************************************************************************)
(* CalculateChecksum: 16-bit wraparound sum of the first `length` bytes,    *)
(* complemented (~ on a uint16_t return value).                             *)
(***************************************************************************)
\* sum += bytes[i] on a uint16_t, for the bytes lo..hi; the wraparound sum
\* does not depend on the grouping, so it is taken by halves.
RECURSIVE SumRange(_, _, _)
SumRange(bytes, lo, hi) ==
    IF lo > hi THEN 0
    ELSE IF lo = hi THEN bytes[lo]
    ELSE LET mid == (lo + hi) \div 2
         IN (SumRange(bytes, lo, mid) + SumRange(bytes, mid + 1, hi)) % 65536

SumBytes(bytes, n) == SumRange(bytes, 1, n)

CalculateChecksum(data, length) == 65535 - SumBytes(data, length)

(***************************************************************************)
(* CommandPacket_t: field accessors on the 73 bytes                        *)
(***************************************************************************)
CmdSync1(c) == c[1]
CmdSync2(c) == c[2]
CmdId(c) == c[3]
CmdSeq(c) == U16At(c, 4)
CmdParamLen(c) == U16At(c, 6)
CmdParam(c, i) == c[8 + i]
CmdChecksum(c) == U16At(c, SizeofCommandPacket - 1)

\* The bytes a sender puts on the link for a command whose only non-zero
\* parameter is parameters[0], with the checksum field given.
CommandFrame(sync2, id, seq, plen, p0, ck) ==
    <<SYNC1, sync2, id>> \o LE16(seq) \o LE16(plen) \o <<p0>>
        \o Zeros(PARAM_CAPACITY - 1) \o LE16(ck)

CommandChecksum(sync2, id, seq, plen, p0) ==
    CalculateChecksum(CommandFrame(sync2, id, seq, plen, p0, 0), SizeofCommandPacket - 2)

ValidCommand(id, seq, plen, p0) ==
    CommandFrame(SYNC2_COMMAND, id, seq, plen, p0,
                 CommandChecksum(SYNC2_COMMAND, id, seq, plen, p0))

\* The same frame with the checksum field off by `delta` (delta # 0).
CorruptCommand(id, seq, plen, p0, delta) ==
    CommandFrame(SYNC2_COMMAND, id, seq, plen, p0,
                 (CommandChecksum(SYNC2_COMMAND, id, seq, plen, p0) + delta) % 65536)

ChecksumValid(c) == CalculateChecksum(c, SizeofCommandPacket - 2) = CmdChecksum(c)
SyncValid(c) == CmdSync1(c) = SYNC1 /\ CmdSync2(c) = SYNC2_COMMAND

(***************************************************************************)
(* TelemetryPacket_t: a record of the struct's fields; floats are kept as   *)
(* their four IEEE-754 bytes.  TelemetryBytes is the struct's memory image. *)
(***************************************************************************)
F32Zero == <<0, 0, 0, 0>>

ZeroTelemetry ==
    [sync1 |-> 0, sync2 |-> 0, packet_type |-> 0, sequence_number |-> 0,
     timestamp |-> 0, mag_x |-> F32Zero, mag_y |-> F32Zero, mag_z |-> F32Zero,
     corrosion_raw |-> 0, radiation_cps |-> LE32(0), temperature_bme |-> F32Zero,
     pressure |-> F32Zero, humidity |-> F32Zero, temperature_tmp |-> F32Zero,
     latitude |-> 0, longitude |-> 0, altitude |-> 0, gps_quality |-> 0,
     gps_satellites |-> 0, battery_voltage |-> 0, battery_current |-> 0,
     boot_count |-> 0, error_flags |-> 0, system_state |-> 0, uptime |-> 0,
     checksum |-> 0]

TelemetryBytes(t) ==
    <<t.sync1, t.sync2, t.packet_type>> \o LE16(t.sequence_number)
        \o LE32(t.timestamp) \o t.mag_x \o t.mag_y \o t.mag_z
        \o LE16(t.corrosion_raw) \o t.radiation_cps \o t.temperature_bme
        \o t.pressure \o t.humidity \o t.temperature_tmp
        \o LE32(t.latitude) \o LE32(t.longitude) \o LE32(t.altitude)
        \o <<t.gps_quality, t.gps_satellites>> \o LE16(t.battery_voltage)
        \o LE16(t.battery_current)
        \o <<t.boot_count % 256, t.error_flags, t.system_state>>
        \o LE32(t.uptime) \o LE16(t.checksum)

\* COMM_SendTelemetry up to the transmit call: stamps the header and the
\* checksum into the packet it is handed.
EncodeTelemetry(t, now) ==
    LET h == [t EXCEPT !.sync1 = SYNC1, !.sync2 = SYNC2_TELEMETRY,
                       !.packet_type = 1, !.timestamp = now]
    IN [h EXCEPT !.checksum =
            CalculateChecksum(TelemetryBytes(h), SizeofTelemetryPacket - 2)]

\* (a LogError that keeps the last code only)
LogError_Overwrite(t, code) == [t EXCEPT !.error_flags = code]

\* LogError: error_flags |= error_code
LogError(t, code) == [t EXCEPT !.error_flags = BitOr8(t.error_flags, code)]

(***************************************************************************)
(* State                                                                   *)
(***************************************************************************)
VARIABLES
    \* main.c globals
    system_state,          \* uint8_t system_state
    current_telemetry,     \* TelemetryPacket_t current_telemetry
    boot_count,            \* uint32_t boot_count
    system_uptime,         \* uint32_t system_uptime
    telemetryQueue,        \* osMessageQueue of TelemetryPacket_t, capacity 10
    commandQueue,          \* osMessageQueue of CommandPacket_t, capacity 5
    \* CommTask
    comm_pc,               \* where CommTask stands in its loop
    tx_packet,             \* CommTask local TelemetryPacket_t
    cmd,                   \* CommTask local CommandPacket_t
    last_beacon,           \* CommTask local
    \* HAL_UART_RxCpltCallback of main.c
    rx_cmd,                \* static CommandPacket_t rx_cmd
    rx_target,             \* buffer the armed whole-packet reception fills
    rxCount,               \* packets delivered by the link so far
    \* hardware
    mcu,                   \* "run" | "reset" (NVIC_SystemReset / IWDG reset)
    pi_wake,               \* level of PI_WAKE_PIN
    tick,                  \* HAL_GetTick()
    uart1_last,            \* the last frame HAL_UART_Transmit put on huart1
    \* the other tasks, the pulse interrupt and the independent watchdog
    sequence,              \* SensorTask: static uint16_t sequence
    radiation_pulse_count, \* volatile uint32_t radiation_pulse_count
    last_count,            \* RadiationTask local
    hung,                  \* units stuck for good in a call that does not return
    ran,                   \* units that completed a loop turn since the last tick
    wdg_sleep,             \* seconds left of WatchdogTask's vTaskDelay
    iwdg_left,             \* seconds left before the IWDG resets the MCU
    \* communication.c
    rx_buffer,             \* static uint8_t rx_buffer[UART_RX_BUFFER_SIZE]
    rx_index,              \* static uint16_t rx_index
    expected_length,       \* static uint16_t expected_length
    packet_type,           \* static uint8_t packet_type
    \* the link towards the receiver
    link,                  \* bytes of the frame in transit not yet delivered
    frameCount,            \* frames the link has started
    noiseCount,            \* stray bytes the link has delivered
    \* observation
    disp,                  \* the last ProcessCommand call and what it did
    wire_frame,            \* bytes delivered since the codec left AwaitingSync1
    isr_put,               \* what the last received byte handed to the queue
    feed,                  \* the frame in transit, and how it started
    wireQueue,             \* for each queued command, the frame as on the link
    cmd_wire,              \* the same for the command CommTask holds
    wdg_eval,              \* the last evaluation of WatchdogTask's rules
    beacon_chk,            \* the last beacon check of CommTask
    rad_obs,               \* pulses counted against what RadiationTask reported
    put_obs,               \* the last osMessageQueuePut and what it did
    cmd_log,               \* packets received, queued, dispatched and transmitted so far
    \* system.c
    task_health,           \* static uint8_t task_health[4]
    last_health_check,     \* static uint32_t last_health_check
    poll                   \* the last SYSTEM_CheckHealth call and what it did

mainVars == <<system_state, current_telemetry, boot_count, system_uptime>>
queueVars == <<telemetryQueue, commandQueue>>
commVars == <<comm_pc, tx_packet, cmd, last_beacon>>
uartVars == <<rx_cmd, rx_target, rxCount>>
hwVars == <<mcu, pi_wake, tick, uart1_last>>
codecVars == <<rx_buffer, rx_index, expected_length, packet_type>>
linkVars == <<link, frameCount, noiseCount, wire_frame, isr_put, feed>>
taskVars == <<sequence, radiation_pulse_count, last_count>>
schedVars == <<hung, ran, wdg_sleep, iwdg_left>>
obsVars == <<wdg_eval, beacon_chk, rad_obs, put_obs, cmd_log>>
sysVars == <<task_health, last_health_check, poll>>

vars == <<mainVars, queueVars, commVars, uartVars, hwVars, codecVars, linkVars,
          taskVars, schedVars, obsVars, sysVars, disp, wireQueue, cmd_wire>>

NoFrame == [port |-> 0, kind |-> "none", bytes |-> <<>>]

NoFeed == [frame |-> <<>>, aligned |-> FALSE, sent |-> 0]

NoEval ==
    [seen |-> FALSE, low |-> FALSE, hot |-> FALSE, pre_state |-> 0, mid_state |-> 0,
     post_state |-> 0, pre_flags |-> 0, post_flags |-> 0, shutdown |-> FALSE,
     held_low |-> FALSE, low_since_shutdown |-> FALSE, temp_centi |-> 0, centi |-> 0,
     batt_from |-> "startup", eval_from |-> "startup"]

NoBeaconCheck ==
    [seen |-> FALSE, state |-> 0, elapsed |-> 0, sent |-> <<>>, last_after |-> 0,
     now |-> 0]

NoRad == [total |-> 0, since |-> 0, counted |-> 0]

NoPut == [done |-> FALSE, full |-> FALSE, unchanged |-> FALSE, stored |-> FALSE]

NoLog ==
    [received |-> {}, pending |-> <<>>, in_order |-> TRUE, dispatched |-> 0,
     tlm_accepted |-> 0, tlm_transmitted |-> 0]

NoPoll ==
    [seen |-> FALSE, elapsed |-> 0, sampled |-> FALSE, before |-> <<0, 0, 0, 0>>,
     after |-> <<0, 0, 0, 0>>, running |-> {}, asked |-> FALSE, returned |-> 0]

NoDispatch ==
    [busy |-> FALSE, done |-> FALSE, cmd |-> <<>>, wire |-> <<>>, tx |-> <<>>,
     pre_state |-> 0, pre_flags |-> 0, post_state |-> 0, post_flags |-> 0,
     param_reads |-> {}, wake |-> <<>>]

(***************************************************************************)
(* Inputs the link delivers as whole command packets                       *)
(***************************************************************************)
SeqSamples == {1, 255, 511}
ParamLenSamples == {0, 1, 65, 65535}
ModeSamples == {STATE_NOMINAL, STATE_DATA_TX, 8, 255}
OtherCmdIds == {CMD_GET_TELEMETRY, CMD_CAPTURE_IMAGE, CMD_RESET, CMD_TRANSMIT_FILE,
                CMD_UPDATE_FIRMWARE, CMD_SET_SCHEDULE, CMD_BEACON, 0, 10}

CommandInputs ==
    {ValidCommand(CMD_PING, s, 0, 0) : s \in SeqSamples}
    \cup {ValidCommand(CMD_SET_MODE, 1, n, v) : n \in ParamLenSamples, v \in ModeSamples}
    \cup {ValidCommand(id, 1, 65535, 3) : id \in OtherCmdIds}
    \cup {CorruptCommand(id, 1, 1, STATE_NOMINAL, 1) : id \in {CMD_SET_MODE, CMD_RESET}}

(***************************************************************************)
(* Initial state: after main() created the queues and the tasks            *)
(***************************************************************************)
\* every variable but the pulse counter and RadiationTask's last_count
InitButCounters ==
    /\ system_state = STATE_BOOT
    /\ current_telemetry = ZeroTelemetry
    /\ boot_count = 0
    /\ system_uptime = 0
    /\ telemetryQueue = <<>>
    /\ commandQueue = <<>>
    /\ comm_pc = "init"
    /\ tx_packet = ZeroTelemetry
    /\ cmd = Zeros(SizeofCommandPacket)
    /\ last_beacon = 0
    /\ rx_cmd = Zeros(SizeofCommandPacket)
    /\ rx_target = "none"
    /\ rxCount = 0
    /\ mcu = "run"
    /\ pi_wake = 0
    /\ tick = 0
    /\ uart1_last = NoFrame
    /\ sequence = 0
    /\ hung = {}
    /\ ran = {}
    /\ wdg_sleep = 0
    /\ iwdg_left = IwdgTimeout
    /\ rx_buffer = Zeros(UART_RX_BUFFER_SIZE)
    /\ rx_index = 0
    /\ expected_length = 0
    /\ packet_type = 0
    /\ link = <<>>
    /\ frameCount = 0
    /\ noiseCount = 0
    /\ disp = NoDispatch
    /\ wire_frame = <<>>
    /\ isr_put = <<>>
    /\ feed = NoFeed
    /\ wireQueue = <<>>
    /\ cmd_wire = <<>>
    /\ wdg_eval = NoEval
    /\ beacon_chk = NoBeaconCheck
    /\ rad_obs = NoRad
    /\ put_obs = NoPut
    /\ cmd_log = NoLog
    /\ task_health = <<0, 0, 0, 0>>
    /\ last_health_check = 0
    /\ poll = NoPoll

Init ==
    /\ InitButCounters
    /\ radiation_pulse_count = LE32(0)
    /\ last_count = LE32(0)

(***************************************************************************)
(* osMessageQueuePut with timeout 0: a full queue drops the new item       *)
(***************************************************************************)
\* (a queue that makes room by dropping its oldest item)
QueuePut_Overwrite(q, item, capacity) ==
    IF Len(q) < capacity THEN Append(q, item) ELSE Append(Tail(q), item)

QueuePut(q, item, capacity) == IF Len(q) < capacity THEN Append(q, item) ELSE q

\* What a put did to queue q, which holds after once the put returned.
PutObserved(q, after, item, capacity) ==
    [done |-> TRUE, full |-> Len(q) >= capacity, unchanged |-> after = q,
     stored |-> after = Append(q, item)]

(***************************************************************************)
(* HAL_UART_RxCpltCallback (main.c): the armed reception of                *)
(* sizeof(CommandPacket_t) bytes completes with packet p in its target      *)
(* buffer; the callback queues rx_cmd and re-arms the reception on rx_cmd.  *)
(***************************************************************************)
UartRxCplt(p) ==
    /\ mcu = "run"
    /\ rx_target # "none"
    /\ LET received_rx_cmd == IF rx_target = "rx_cmd" THEN p ELSE rx_cmd
       IN /\ rx_cmd' = received_rx_cmd
          /\ cmd' = IF rx_target = "cmd" THEN p ELSE cmd
          /\ commandQueue' = QueuePut(commandQueue, received_rx_cmd, COMMAND_QUEUE_LEN)
          /\ put_obs' = PutObserved(commandQueue, commandQueue',
                                    received_rx_cmd, COMMAND_QUEUE_LEN)
          /\ cmd_log' = [cmd_log EXCEPT
                            !.received = @ \cup {p},
                            !.pending = IF Len(commandQueue) < COMMAND_QUEUE_LEN
                                        THEN Append(@, received_rx_cmd) ELSE @]
    /\ wireQueue' = QueuePut(wireQueue, p, COMMAND_QUEUE_LEN)
    /\ rx_target' = "rx_cmd"
    /\ rxCount' = rxCount + 1
    /\ UNCHANGED <<sysVars, mainVars, telemetryQueue, comm_pc, tx_packet, last_beacon, hwVars,
                   codecVars, wdg_eval, beacon_chk, rad_obs, taskVars, schedVars,
                   linkVars, disp, cmd_wire>>

(***************************************************************************)
(* ProcessCommand                                                          *)
(***************************************************************************)
\* Indices i for which ProcessCommand(c) reads c.parameters[i]: the checksum
\* loop covers bytes 0..70 of the struct (parameters[0..63]), SetMode reads
\* parameters[0], TransmitFile hands the whole struct to the UART.
\* (a dispatcher that reads the last parameter parameter_length announces)
ParamReads_LastParam(c) ==
    IF ~SyncValid(c) THEN {}
    ELSE (0..(SizeofCommandPacket - 2 - 7 - 1))
         \cup (IF ChecksumValid(c) /\ CmdId(c) = CMD_SET_MODE /\ CmdParamLen(c) >= 1
               THEN {CmdParamLen(c) - 1} ELSE {})

ParamReads(c) ==
    IF ~SyncValid(c) THEN {}
    ELSE (0..(SizeofCommandPacket - 2 - 7 - 1))
         \cup (IF ChecksumValid(c) /\ CmdId(c) = CMD_SET_MODE /\ CmdParamLen(c) >= 1
               THEN {0} ELSE {})

\* A response that echoes the high byte of the sequence number instead.
PingResponse_HighByte(c) == <<SYNC1, PING_ACK, 1, CmdSeq(c) \div 256>>

PingResponse(c) == <<SYNC1, PING_ACK, 1, CmdSeq(c) % 256>>

Frame(port, kind, bytes) == [port |-> port, kind |-> kind, bytes |-> bytes]

\* The observation record of a ProcessCommand call that has returned.
Dispatched(c, tx, wake, new_state, new_flags) ==
    [busy |-> FALSE, done |-> TRUE, cmd |-> c, wire |-> cmd_wire, tx |-> tx,
     pre_state |-> system_state, pre_flags |-> current_telemetry.error_flags,
     post_state |-> new_state, post_flags |-> new_flags,
     param_reads |-> ParamReads(c), wake |-> wake]

\* A SetMode that rejects bytes outside the enumerated states.
SetModeTarget_Checked(c) ==
    IF CmdParamLen(c) >= 1 /\ CmdParam(c, 0) <= STATE_DATA_TX
    THEN CmdParam(c, 0) ELSE system_state

\* The value SetMode stores in system_state.
SetModeTarget(c) == IF CmdParamLen(c) >= 1 THEN CmdParam(c, 0) ELSE system_state

\* Whether the switch of ProcessCommand has a case for the identifier.
HasCase(id) ==
    id \in {CMD_PING, CMD_GET_TELEMETRY, CMD_CAPTURE_IMAGE, CMD_SET_MODE,
            CMD_RESET, CMD_TRANSMIT_FILE}

\* ProcessCommand(&cmd) from its entry to its return or to its first wait.
ProcessCommand ==
    /\ mcu = "run"
    /\ comm_pc = "dispatch"
    /\ cmd_log' = [cmd_log EXCEPT
                      !.dispatched = @ + 1,
                      !.pending = IF @ = <<>> THEN @ ELSE Tail(@),
                      !.in_order = /\ @
                                   /\ cmd_log.pending # <<>>
                                   /\ Head(cmd_log.pending) = cmd]
    /\ LET c == cmd
           flags == current_telemetry.error_flags
           Return(tx, new_state, new_telemetry) ==
               /\ comm_pc' = "beacon"
               /\ system_state' = new_state
               /\ current_telemetry' = new_telemetry
               /\ disp' = Dispatched(c, tx, <<>>, new_state, new_telemetry.error_flags)
               /\ uart1_last' = IF tx = <<>> THEN uart1_last ELSE tx[Len(tx)]
               /\ pi_wake' = pi_wake
           Wait(pc, new_telemetry, wake) ==
               /\ comm_pc' = pc
               /\ system_state' = system_state
               /\ current_telemetry' = new_telemetry
               /\ disp' = [Dispatched(c, <<>>, wake, system_state, flags)
                              EXCEPT !.busy = TRUE, !.done = FALSE]
               /\ uart1_last' = uart1_last
               /\ pi_wake' = IF wake = <<>> THEN pi_wake ELSE wake[Len(wake)]
       IN IF ~SyncValid(c)
          THEN Return(<<>>, system_state, current_telemetry)
          ELSE IF ~ChecksumValid(c)
          THEN Return(<<>>, system_state, LogError(current_telemetry, ERROR_UART))
          ELSE CASE CmdId(c) = CMD_PING ->
                      Return(<<Frame(1, "ack", PingResponse(c))>>, system_state,
                             current_telemetry)
                 [] CmdId(c) = CMD_GET_TELEMETRY ->
                      Wait("cmd_tlm_tx", EncodeTelemetry(current_telemetry, tick), <<>>)
                 [] CmdId(c) = CMD_CAPTURE_IMAGE ->
                      Wait("capture_wait", current_telemetry, <<1>>)
                 [] CmdId(c) = CMD_SET_MODE ->
                      Return(<<>>, SetModeTarget(c), current_telemetry)
                 [] CmdId(c) = CMD_RESET ->
                      Wait("reset_wait", current_telemetry, <<>>)
                 [] CmdId(c) = CMD_TRANSMIT_FILE ->
                      Return(<<Frame(1, "file", c)>>, system_state, current_telemetry)
                 [] ~HasCase(CmdId(c)) ->
                      Return(<<>>, system_state,
                             LogError(current_telemetry, ERROR_UNKNOWN_COMMAND))
    /\ UNCHANGED <<sysVars, boot_count, system_uptime, queueVars, tx_packet, cmd, last_beacon,
                   uartVars, mcu, tick, codecVars, wdg_eval, beacon_chk, rad_obs, put_obs,
                   taskVars, schedVars, linkVars, wireQueue, cmd_wire>>

\* CMD_GET_TELEMETRY: HAL_UART_Transmit of current_telemetry, whose header
\* and checksum COMM_SendTelemetry wrote before the transmission started.
ProcessCommand_TransmitTelemetry ==
    /\ mcu = "run"
    /\ comm_pc = "cmd_tlm_tx"
    /\ LET f == Frame(1, "telemetry", TelemetryBytes(current_telemetry))
       IN /\ uart1_last' = f
          /\ disp' = [disp EXCEPT !.busy = FALSE, !.done = TRUE, !.tx = Append(@, f),
                                  !.post_state = system_state,
                                  !.post_flags = current_telemetry.error_flags]
    /\ comm_pc' = "beacon"
    /\ UNCHANGED <<sysVars, mainVars, queueVars, tx_packet, cmd, last_beacon, uartVars,
                   mcu, pi_wake, tick, codecVars, obsVars, taskVars, schedVars, linkVars, wireQueue, cmd_wire>>

\* (a dispatcher that leaves the wake pin high after the delay)
ProcessCommand_CaptureEnd_PinHigh ==
    /\ mcu = "run"
    /\ comm_pc = "capture_wait"
    /\ system_state' = STATE_IMAGE_CAPTURE
    /\ disp' = [disp EXCEPT !.busy = FALSE, !.done = TRUE,
                            !.post_state = STATE_IMAGE_CAPTURE,
                            !.post_flags = current_telemetry.error_flags]
    /\ comm_pc' = "beacon"
    /\ UNCHANGED <<sysVars, current_telemetry, boot_count, system_uptime, queueVars, tx_packet,
                   cmd, last_beacon, uartVars, hwVars, codecVars, obsVars, taskVars,
                   schedVars, linkVars, wireQueue, cmd_wire>>

\* CMD_CAPTURE_IMAGE after osDelay(100): wake pin low, state ImageCapture.
ProcessCommand_CaptureEnd ==
    /\ mcu = "run"
    /\ comm_pc = "capture_wait"
    /\ pi_wake' = 0
    /\ system_state' = STATE_IMAGE_CAPTURE
    /\ disp' = [disp EXCEPT !.busy = FALSE, !.done = TRUE, !.wake = Append(@, 0),
                            !.post_state = STATE_IMAGE_CAPTURE,
                            !.post_flags = current_telemetry.error_flags]
    /\ comm_pc' = "beacon"
    /\ UNCHANGED <<sysVars, current_telemetry, boot_count, system_uptime, queueVars, tx_packet,
                   cmd, last_beacon, uartVars, mcu, tick, uart1_last, codecVars, obsVars, taskVars, schedVars,
                   linkVars, wireQueue, cmd_wire>>

\* (a reset primitive that returns to the caller, which leaves the switch)
ProcessCommand_Reset_Returns ==
    /\ mcu = "run"
    /\ comm_pc = "reset_wait"
    /\ comm_pc' = "beacon"
    /\ disp' = [disp EXCEPT !.busy = FALSE, !.done = TRUE]
    /\ UNCHANGED <<sysVars, mainVars, queueVars, tx_packet, cmd, last_beacon, uartVars, hwVars,
                   codecVars, obsVars, taskVars, schedVars, linkVars, wireQueue, cmd_wire>>

\* CMD_RESET after HAL_Delay(100): NVIC_SystemReset does not return.
ProcessCommand_Reset ==
    /\ mcu = "run"
    /\ comm_pc = "reset_wait"
    /\ mcu' = "reset"
    /\ UNCHANGED <<sysVars, mainVars, queueVars, commVars, uartVars, pi_wake, tick, uart1_last,
                   codecVars, obsVars, taskVars, schedVars, linkVars, disp, wireQueue, cmd_wire>>

(***************************************************************************)
(* CommTask                                                                *)
(***************************************************************************)
\* HAL_UART_Receive_IT(&huart1, (uint8_t*)&cmd, sizeof(CommandPacket_t))
CommTask_Start ==
    /\ mcu = "run"
    /\ comm_pc = "init"
    /\ rx_target' = IF rx_target = "none" THEN "cmd" ELSE rx_target   \* else HAL_BUSY
    /\ comm_pc' = "tlm_get"
    /\ UNCHANGED <<sysVars, mainVars, queueVars, tx_packet, cmd, last_beacon, rx_cmd, rxCount,
                   hwVars, codecVars, obsVars, taskVars, schedVars, linkVars, disp, wireQueue, cmd_wire>>

\* (a queue get that always times out)
QueueGetOk_Never(q) == FALSE

\* osMessageQueueGet returns osOK when the queue holds an item
QueueGetOk(q) == q # <<>>

\* osMessageQueueGet(telemetryQueueHandle, &tx_packet, 0, 10) and, on osOK,
\* COMM_SendTelemetry(&tx_packet) up to its transmit call.
CommTask_GetTelemetry ==
    /\ mcu = "run"
    /\ comm_pc = "tlm_get"
    /\ IF QueueGetOk(telemetryQueue)
       THEN /\ tx_packet' = EncodeTelemetry(Head(telemetryQueue), tick)
            /\ telemetryQueue' = Tail(telemetryQueue)
            /\ comm_pc' = "tlm_tx"
       ELSE /\ UNCHANGED <<tx_packet, telemetryQueue>>
            /\ comm_pc' = "cmd_get"
    /\ UNCHANGED <<sysVars, mainVars, commandQueue, cmd, last_beacon, uartVars, hwVars,
                   codecVars, obsVars, taskVars, schedVars, linkVars, disp, wireQueue, cmd_wire>>

\* HAL_UART_Transmit(&huart1, &tx_packet, sizeof(TelemetryPacket_t), ...)
CommTask_TransmitTelemetry ==
    /\ mcu = "run"
    /\ comm_pc = "tlm_tx"
    /\ uart1_last' = Frame(1, "telemetry", TelemetryBytes(tx_packet))
    /\ cmd_log' = [cmd_log EXCEPT !.tlm_transmitted = @ + 1]
    /\ comm_pc' = "cmd_get"
    /\ UNCHANGED <<sysVars, mainVars, queueVars, tx_packet, cmd, last_beacon, uartVars,
                   mcu, pi_wake, tick, codecVars, wdg_eval, beacon_chk, rad_obs, put_obs,
                   taskVars, schedVars, linkVars, disp, wireQueue, cmd_wire>>

\* osMessageQueueGet(commandQueueHandle, &cmd, 0, 10)
CommTask_GetCommand ==
    /\ mcu = "run"
    /\ comm_pc = "cmd_get"
    /\ IF QueueGetOk(commandQueue)
       THEN /\ cmd' = Head(commandQueue)
            /\ commandQueue' = Tail(commandQueue)
            /\ cmd_wire' = Head(wireQueue)
            /\ wireQueue' = Tail(wireQueue)
            /\ comm_pc' = "dispatch"
       ELSE /\ UNCHANGED <<cmd, commandQueue, cmd_wire, wireQueue>>
            /\ comm_pc' = "beacon"
    /\ UNCHANGED <<sysVars, mainVars, telemetryQueue, tx_packet, last_beacon, uartVars, hwVars,
                   codecVars, obsVars, taskVars, schedVars, linkVars, disp>>

BeaconDue ==
    /\ (tick - last_beacon) > 30000
    /\ system_state \in {STATE_NOMINAL, STATE_IDLE}

\* The six bytes COMM_SendBeacon transmits on huart2.
COMM_SendBeacon ==
    <<SYNC1, BEACON_SYNC2, system_state, boot_count % 256,
      (current_telemetry.battery_voltage \div 256) % 256,
      current_telemetry.battery_voltage % 256>>

\* The beacon check, COMM_SendBeacon and osDelay(100).  beacon_chk keeps what
\* the check saw and the frames it put on huart2.
CommTask_Beacon ==
    /\ mcu = "run"
    /\ comm_pc = "beacon"
    /\ last_beacon' = IF BeaconDue THEN tick ELSE last_beacon
    /\ beacon_chk' = [seen |-> TRUE, state |-> system_state,
                      elapsed |-> tick - last_beacon,
                      sent |-> IF BeaconDue THEN <<Frame(2, "beacon", COMM_SendBeacon)>>
                               ELSE <<>>,
                      last_after |-> last_beacon', now |-> tick]
    /\ comm_pc' = "tlm_get"
    /\ UNCHANGED <<sysVars, mainVars, queueVars, tx_packet, cmd, uartVars, hwVars, codecVars,
                   wdg_eval, rad_obs, put_obs, cmd_log, taskVars, schedVars,
                   linkVars, disp, wireQueue, cmd_wire>>

\* HAL_GetTick() advances by d ms.
TickAdvance(d) ==
    /\ mcu = "run"
    /\ tick' = tick + d
    /\ UNCHANGED <<sysVars, mainVars, queueVars, commVars, uartVars, mcu, pi_wake, uart1_last,
                   codecVars, obsVars, taskVars, schedVars, linkVars, disp, wireQueue,
                   cmd_wire>>

(***************************************************************************)
(* SpecCmd: the link delivers whole command packets, CommTask dispatches    *)
(***************************************************************************)
NextCmd ==
    \/ \E p \in CommandInputs : rxCount < MaxRxPackets /\ UartRxCplt(p)
    \/ CommTask_Start
    \/ CommTask_GetTelemetry
    \/ CommTask_GetCommand
    \/ ProcessCommand
    \/ ProcessCommand_TransmitTelemetry
    \/ ProcessCommand_CaptureEnd
    \/ ProcessCommand_Reset
    \/ CommTask_Beacon

SpecCmd == Init /\ [][NextCmd]_vars

(***************************************************************************)
(* communication.c: the byte-wise frame codec                              *)
(***************************************************************************)
CodecState ==
    [buf |-> rx_buffer, idx |-> rx_index, exp |-> expected_length,
     ptype |-> packet_type, puts |-> <<>>]

\* (a codec that queues every completed frame, whatever its type)
CompletedPut_AnyType(st) == <<SubSeq(st.buf, 1, SizeofCommandPacket)>>

\* What a completed frame hands to osMessageQueuePut(commandQueueHandle, ...):
\* the first sizeof(CommandPacket_t) bytes of rx_buffer, for a Command frame.
CompletedPut(st) ==
    IF st.ptype = 2 THEN <<SubSeq(st.buf, 1, SizeofCommandPacket)>> ELSE <<>>

\* (a codec that leaves rx_index alone when a frame completes)
AfterComplete_NoRewind(st) ==
    [st EXCEPT !.exp = 0, !.puts = st.puts \o CompletedPut(st)]

\* The state after the completion test found a whole frame.
AfterComplete(st) ==
    [st EXCEPT !.idx = 0, !.exp = 0, !.puts = st.puts \o CompletedPut(st)]

\* One iteration of the for loop of COMM_ProcessReceivedData on byte b.
ProcessByte(st, b) ==
    LET stored == [st EXCEPT !.buf[st.idx + 1] = b, !.idx = st.idx + 1]
    IN IF stored.idx = 1 /\ stored.buf[1] # SYNC1
       THEN [stored EXCEPT !.idx = 0]
       ELSE LET typed ==
                    IF stored.idx = 2
                    THEN IF stored.buf[2] = SYNC2_TELEMETRY
                         THEN [stored EXCEPT !.ptype = 1, !.exp = SizeofTelemetryPacket]
                         ELSE IF stored.buf[2] = SYNC2_COMMAND
                         THEN [stored EXCEPT !.ptype = 2, !.exp = SizeofCommandPacket]
                         ELSE [stored EXCEPT !.idx = 0]
                    ELSE stored
            IN IF typed.idx >= typed.exp /\ typed.exp > 0
               THEN AfterComplete(typed)
               ELSE typed

\* COMM_ProcessReceivedData(data, length).  `aliased` says that data is
\* rx_buffer itself, as in the callback: data[i] is then read from the buffer
\* the loop is writing.
RECURSIVE ProcessFrom(_, _, _, _, _)
ProcessFrom(st, data, i, length, aliased) ==
    IF i >= length THEN st
    ELSE ProcessFrom(ProcessByte(st, IF aliased THEN st.buf[i + 1] ELSE data[i + 1]),
                     data, i + 1, length, aliased)

COMM_ProcessReceivedData(st, data, length, aliased) ==
    ProcessFrom(st, data, 0, length, aliased)

\* HAL_UART_RxCpltCallback (communication.c): the armed one-byte reception
\* has stored byte b at rx_buffer[0]; the callback runs the codec on
\* rx_buffer and re-arms the reception.
CallbackResult(b) ==
    LET received == [CodecState EXCEPT !.buf[1] = b]
    IN COMM_ProcessReceivedData(received, received.buf, 1, TRUE)

\* The codec called on a buffer of the caller's holding byte b.
DirectResult(b) == COMM_ProcessReceivedData(CodecState, <<b>>, 1, FALSE)

RECURSIVE PutAll(_, _)
PutAll(q, items) ==
    IF items = <<>> THEN q
    ELSE PutAll(QueuePut(q, Head(items), COMMAND_QUEUE_LEN), Tail(items))

\* The receiver takes byte b from the link.
Deliver(path, b) ==
    /\ mcu = "run"
    /\ path = "callback" => rx_target = "rx_buffer"
    /\ LET r == IF path = "callback" THEN CallbackResult(b) ELSE DirectResult(b)
           onwire == Append(wire_frame, b)
       IN /\ rx_buffer' = r.buf
          /\ rx_index' = r.idx
          /\ expected_length' = r.exp
          /\ packet_type' = r.ptype
          /\ commandQueue' = PutAll(commandQueue, r.puts)
          /\ put_obs' = IF r.puts = <<>> THEN put_obs
                        ELSE PutObserved(commandQueue, commandQueue',
                                         r.puts[1], COMMAND_QUEUE_LEN)
          /\ cmd_log' = IF r.puts = <<>> THEN cmd_log
                        ELSE [cmd_log EXCEPT
                                 !.received = @ \cup {onwire},
                                 !.pending = IF Len(commandQueue) < COMMAND_QUEUE_LEN
                                             THEN Append(@, r.puts[1]) ELSE @]
          /\ wireQueue' = PutAll(wireQueue, [i \in 1..Len(r.puts) |-> onwire])
          /\ isr_put' = IF r.puts = <<>> THEN <<>> ELSE r.puts[Len(r.puts)]
          /\ wire_frame' = IF r.idx = 0 /\ r.exp = 0 THEN <<>> ELSE onwire
    /\ UNCHANGED <<sysVars, mainVars, telemetryQueue, commVars, uartVars, hwVars, taskVars,
                   schedVars, wdg_eval, beacon_chk, rad_obs, disp, cmd_wire>>

AwaitingSync1 == rx_index = 0 /\ expected_length = 0

\* a stray byte
LinkNoise(path, b) ==
    /\ link = <<>>
    /\ noiseCount < MaxNoise
    /\ Deliver(path, b)
    /\ noiseCount' = noiseCount + 1
    /\ feed' = NoFeed
    /\ UNCHANGED <<link, frameCount>>

\* the first byte of frame f
LinkFrameStart(path, f) ==
    /\ link = <<>>
    /\ frameCount < MaxFrames
    /\ Deliver(path, Head(f))
    /\ link' = Tail(f)
    /\ frameCount' = frameCount + 1
    /\ feed' = [frame |-> f, aligned |-> AwaitingSync1, sent |-> 1]
    /\ UNCHANGED noiseCount

\* the next byte of the frame in transit
LinkFrameNext(path) ==
    /\ link # <<>>
    /\ Deliver(path, Head(link))
    /\ link' = Tail(link)
    /\ feed' = [feed EXCEPT !.sent = @ + 1]
    /\ UNCHANGED <<frameCount, noiseCount>>

\* Frames and stray bytes the link carries.
TelemetryFrame(delta) ==
    LET t == EncodeTelemetry(ZeroTelemetry, 0)
    IN TelemetryBytes([t EXCEPT !.checksum = (@ + delta) % 65536])

LinkFrames ==
    {ValidCommand(CMD_PING, 511, 0, 0),
     ValidCommand(CMD_SET_MODE, 1, 1, STATE_NOMINAL),
     CorruptCommand(CMD_SET_MODE, 1, 1, STATE_NOMINAL, 1),
     CorruptCommand(CMD_SET_MODE, 1, 1, STATE_NOMINAL, 44032),
     TelemetryFrame(0),
     TelemetryFrame(1)}

NoiseBytes == {0, SYNC1, SYNC2_COMMAND}

(***************************************************************************)
(* SpecCodec: COMM_ProcessReceivedData fed byte by byte from a buffer of    *)
(* the caller's                                                            *)
(***************************************************************************)
NextCodec ==
    \/ \E b \in NoiseBytes : LinkNoise("direct", b)
    \/ \E f \in LinkFrames : LinkFrameStart("direct", f)
    \/ LinkFrameNext("direct")

SpecCodec == Init /\ [][NextCodec]_vars

(***************************************************************************)
(* SpecRx: the byte-wise receive path of communication.c (COMM_Init has     *)
(* armed the one-byte reception on rx_buffer) feeding CommTask              *)
(***************************************************************************)
InitRx ==
    /\ rx_target = "rx_buffer"
    /\ system_state = STATE_BOOT
    /\ current_telemetry = ZeroTelemetry
    /\ boot_count = 0
    /\ system_uptime = 0
    /\ telemetryQueue = <<>>
    /\ commandQueue = <<>>
    /\ comm_pc = "init"
    /\ tx_packet = ZeroTelemetry
    /\ cmd = Zeros(SizeofCommandPacket)
    /\ last_beacon = 0
    /\ rx_cmd = Zeros(SizeofCommandPacket)
    /\ rxCount = 0
    /\ mcu = "run"
    /\ pi_wake = 0
    /\ tick = 0
    /\ uart1_last = NoFrame
    /\ sequence = 0
    /\ radiation_pulse_count = LE32(0)
    /\ last_count = LE32(0)
    /\ hung = {}
    /\ ran = {}
    /\ wdg_sleep = 0
    /\ iwdg_left = IwdgTimeout
    /\ rx_buffer = Zeros(UART_RX_BUFFER_SIZE)
    /\ rx_index = 0
    /\ expected_length = 0
    /\ packet_type = 0
    /\ link = <<>>
    /\ frameCount = 0
    /\ noiseCount = 0
    /\ disp = NoDispatch
    /\ wire_frame = <<>>
    /\ isr_put = <<>>
    /\ feed = NoFeed
    /\ wireQueue = <<>>
    /\ cmd_wire = <<>>
    /\ wdg_eval = NoEval
    /\ beacon_chk = NoBeaconCheck
    /\ rad_obs = NoRad
    /\ put_obs = NoPut
    /\ cmd_log = NoLog
    /\ task_health = <<0, 0, 0, 0>>
    /\ last_health_check = 0
    /\ poll = NoPoll

\* Frames and stray bytes on the link of this specification.
RxFrames ==
    {ValidCommand(CMD_PING, 511, 0, 0),
     CorruptCommand(CMD_SET_MODE, 1, 1, STATE_NOMINAL, 1),
     CorruptCommand(CMD_SET_MODE, 1, 1, STATE_NOMINAL, 44032),
     TelemetryFrame(1)}

RxNoiseBytes == {SYNC1}

NextRx ==
    \/ \E b \in RxNoiseBytes : LinkNoise("callback", b)
    \/ \E f \in RxFrames : LinkFrameStart("callback", f)
    \/ LinkFrameNext("callback")
    \/ CommTask_Start
    \/ CommTask_GetTelemetry
    \/ CommTask_GetCommand
    \/ ProcessCommand
    \/ CommTask_Beacon

SpecRx == InitRx /\ [][NextRx]_vars

(***************************************************************************)
(* IEEE-754 single precision values, kept as their four bytes              *)
(***************************************************************************)
F32Bytes(sign, exp, frac) ==
    <<frac % 256, (frac \div 256) % 256,
      ((frac \div 65536) % 128) + 128 * (exp % 2), (exp \div 2) + 128 * sign>>

F32Mag(f) == f[1] + 256 * f[2] + 65536 * f[3] + 16777216 * (f[4] % 128)
F32Neg(f) == f[4] >= 128
F32IsNaN(f) == F32Mag(f) > 2139095040

\* a < b as the FPU compares two floats
F32Less(a, b) ==
    /\ ~F32IsNaN(a) /\ ~F32IsNaN(b)
    /\ IF F32Neg(a)
       THEN IF F32Neg(b) THEN F32Mag(a) > F32Mag(b)
                         ELSE F32Mag(a) + F32Mag(b) > 0
       ELSE ~F32Neg(b) /\ F32Mag(a) < F32Mag(b)

F32_70 == F32Bytes(0, 133, 786432)          \* 70.0f
F32_Minus20 == F32Bytes(1, 131, 2097152)    \* -20.0f

\* Binary exponent e of raw / 100: 100 * 2^e <= raw < 100 * 2^(e+1)
Div100Exponent(raw) ==
    CHOOSE e \in -7 .. 13 :
        IF e >= 0 THEN 100 * 2^e <= raw /\ raw < 100 * 2^(e + 1)
                  ELSE 100 <= raw * 2^(0 - e) /\ raw * 2^(0 - e) < 200

\* raw_temp / 100.0f for a 20-bit raw reading, rounded to nearest even
BME280_CompensateTemperature(raw_temp) ==
    IF raw_temp = 0 THEN F32Zero
    ELSE LET e == Div100Exponent(raw_temp)
             n == raw_temp * 2^(23 - e)
             q == n \div 100
             r == n % 100
             m == IF 2 * r > 100 \/ (2 * r = 100 /\ q % 2 = 1) THEN q + 1 ELSE q
         IN IF m = 16777216 THEN F32Bytes(0, e + 128, 0)
                            ELSE F32Bytes(0, e + 127, m - 8388608)

\* (adc_value * 3300 * 2) / 4096 on a completed conversion, else 0
Read_Battery_Voltage(converted, adc_value) ==
    IF converted THEN ((adc_value * 3300 * 2) \div 4096) % 65536 ELSE 0

(***************************************************************************)
(* SensorTask, RadiationTask, WatchdogTask and the pulse interrupt         *)
(***************************************************************************)
\* Raw BME280 readings 2500 and 7001 are 25.00 and 70.01 C; ADC counts 2110
\* and 2111 are 3399 mV and 3401 mV.

\* One turn of the SensorTask loop; the specifications bound the number of
\* turns.  The magnetometer, pressure, humidity,
\* TMP117 and corrosion inputs are held at raw value 0; a failed BME280 read
\* leaves its three fields as they were.
SensorTask_Iterate(bme_ok, raw_temp, converted, adc_value) ==
    /\ mcu = "run"
    /\ "Sensor" \notin hung
    /\ LET t == [current_telemetry EXCEPT
                    !.mag_x = F32Zero, !.mag_y = F32Zero, !.mag_z = F32Zero,
                    !.temperature_bme =
                        IF bme_ok THEN BME280_CompensateTemperature(raw_temp) ELSE @,
                    !.pressure = IF bme_ok THEN F32Zero ELSE @,
                    !.humidity = IF bme_ok THEN F32Zero ELSE @,
                    !.temperature_tmp = F32Zero,
                    !.corrosion_raw = 0,
                    !.battery_voltage = Read_Battery_Voltage(converted, adc_value),
                    !.battery_current = 0,
                    !.sequence_number = sequence,
                    !.boot_count = boot_count % 256,
                    !.system_state = system_state,
                    !.uptime = system_uptime]
       IN /\ current_telemetry' = t
          /\ telemetryQueue' = QueuePut(telemetryQueue, t, TELEMETRY_QUEUE_LEN)
          /\ put_obs' = PutObserved(telemetryQueue, telemetryQueue', t,
                                     TELEMETRY_QUEUE_LEN)
          /\ wdg_eval' = [wdg_eval EXCEPT
                              !.low_since_shutdown =
                                  IF t.battery_voltage >= BATTERY_CRITICAL THEN FALSE ELSE @,
                              !.centi = IF bme_ok THEN raw_temp ELSE @,
                              !.batt_from = IF converted THEN "conversion" ELSE "failure"]
          /\ cmd_log' = [cmd_log EXCEPT
                            !.tlm_accepted = IF Len(telemetryQueue) < TELEMETRY_QUEUE_LEN
                                             THEN @ + 1 ELSE @]
    /\ sequence' = (sequence + 1) % 65536
    /\ UNCHANGED <<sysVars, system_state, boot_count, system_uptime, commandQueue, commVars,
                   uartVars, hwVars, codecVars, beacon_chk, rad_obs, linkVars,
                   radiation_pulse_count, last_count, schedVars, disp, wireQueue, cmd_wire>>

\* HAL_GPIO_EXTI_Callback(RADIATION_PIN); the specifications bound the pulses
\* of a run.  rad_obs counts the pulses, in all and since RadiationTask's
\* last read.
RadiationPulse ==
    /\ mcu = "run"
    /\ radiation_pulse_count' = U32Increment(radiation_pulse_count)
    /\ rad_obs' = [rad_obs EXCEPT !.total = @ + 1, !.since = @ + 1]
    /\ UNCHANGED <<sysVars, mainVars, queueVars, commVars, uartVars, hwVars, codecVars,
                   wdg_eval, beacon_chk, put_obs, cmd_log, linkVars,
                   sequence, last_count, schedVars, disp, wireQueue, cmd_wire>>

\* One turn of the RadiationTask loop: the uint32_t difference of the count
\* read now and the count read one turn before.
RadiationTask_Iterate ==
    /\ mcu = "run"
    /\ "Radiation" \notin hung
    /\ current_telemetry' =
           [current_telemetry EXCEPT
               !.radiation_cps = U32Minus(radiation_pulse_count, last_count)]
    /\ last_count' = radiation_pulse_count
    /\ rad_obs' = [rad_obs EXCEPT !.counted = rad_obs.since, !.since = 0]
    /\ UNCHANGED <<sysVars, system_state, boot_count, system_uptime, queueVars, commVars,
                   uartVars, hwVars, codecVars, wdg_eval, beacon_chk, put_obs, cmd_log,
                   linkVars, sequence, radiation_pulse_count, schedVars, disp, wireQueue,
                   cmd_wire>>

TemperatureOutOfRange_Inclusive(t) ==
    ~F32Less(t.temperature_bme, F32_70) \/ F32Less(t.temperature_bme, F32_Minus20)

TemperatureOutOfRange(t) ==
    F32Less(F32_70, t.temperature_bme) \/ F32Less(t.temperature_bme, F32_Minus20)

\* (a watchdog that returns to Nominal once both readings are in range)
WatchdogState_Recovering(state, low, hot) ==
    IF hot THEN STATE_SAFE ELSE IF low THEN STATE_LOW_POWER ELSE STATE_NOMINAL

\* (a watchdog that applies the battery rule last)
WatchdogState_BatteryLast(state, low, hot) ==
    IF low THEN STATE_LOW_POWER ELSE IF hot THEN STATE_SAFE ELSE state

\* system_state after the battery rule and then the temperature rule
WatchdogState(state, low, hot) ==
    IF hot THEN STATE_SAFE ELSE IF low THEN STATE_LOW_POWER ELSE state

\* One turn of the WatchdogTask loop: both threshold checks, ShutdownPayload,
\* the IWDG refresh, the uptime increment and the start of the 5 s delay.
\* wdg_eval keeps what the evaluation saw and did, with the BME280 reading in
\* hundredths of a degree as SensorTask last took it, and where the battery
\* value evaluated came from: the zero-initialised record ("startup"), a
\* completed ADC conversion or the 0 of a failed one.
\* system_uptime stops counting at WatchdogPeriod * MaxWatchdogTurns.
WatchdogTask_Iterate ==
    /\ mcu = "run"
    /\ "Watchdog" \notin hung
    /\ LET low == current_telemetry.battery_voltage < BATTERY_CRITICAL
           hot == TemperatureOutOfRange(current_telemetry)
       IN /\ system_state' = WatchdogState(system_state, low, hot)
          /\ pi_wake' = IF low THEN 0 ELSE pi_wake
          /\ current_telemetry' = IF hot THEN LogError(current_telemetry, ERROR_TEMPERATURE)
                                  ELSE current_telemetry
          /\ wdg_eval' =
                 [seen |-> TRUE, low |-> low, hot |-> hot,
                  pre_state |-> system_state,
                  mid_state |-> IF low THEN STATE_LOW_POWER ELSE system_state,
                  post_state |-> system_state',
                  pre_flags |-> current_telemetry.error_flags,
                  post_flags |-> current_telemetry'.error_flags,
                  shutdown |-> low,
                  held_low |-> wdg_eval.low_since_shutdown,
                  low_since_shutdown |-> low,
                  temp_centi |-> wdg_eval.centi, centi |-> wdg_eval.centi,
                  batt_from |-> wdg_eval.batt_from, eval_from |-> wdg_eval.batt_from]
    /\ iwdg_left' = IwdgTimeout
    /\ system_uptime' = IF system_uptime < WatchdogPeriod * MaxWatchdogTurns
                        THEN system_uptime + 5 ELSE system_uptime
    /\ wdg_sleep' = WatchdogPeriod
    /\ UNCHANGED <<sysVars, boot_count, queueVars, commVars, uartVars, mcu, tick, uart1_last,
                   codecVars, beacon_chk, rad_obs, put_obs, cmd_log, linkVars, taskVars,
                   hung, ran, disp, wireQueue, cmd_wire>>

(***************************************************************************)
(* SpecTasks: the four tasks and the two interrupts, freely interleaved    *)
(***************************************************************************)
TaskCommandInputs == {ValidCommand(CMD_GET_TELEMETRY, 1, 0, 0)}

\* <<BME280 read succeeded, raw temperature, ADC conversion completed, ADC count>>
SensorInputs ==
    {<<TRUE, 2500, TRUE, 2111>>, <<TRUE, 7001, TRUE, 2111>>,
     <<TRUE, 2500, TRUE, 2110>>, <<FALSE, 2500, FALSE, 2110>>}

NextTasks ==
    \/ \E in \in SensorInputs :
          sequence < MaxSensorCycles /\ SensorTask_Iterate(in[1], in[2], in[3], in[4])
    \/ rad_obs.total < MaxPulses /\ RadiationPulse
    \/ RadiationTask_Iterate
    \/ system_uptime < WatchdogPeriod * MaxWatchdogTurns /\ WatchdogTask_Iterate
    \/ \E p \in TaskCommandInputs : rxCount < MaxTaskCommands /\ UartRxCplt(p)
    \/ CommTask_Start
    \/ CommTask_GetTelemetry
    \/ CommTask_TransmitTelemetry
    \/ CommTask_GetCommand
    \/ ProcessCommand
    \/ ProcessCommand_TransmitTelemetry
    \/ CommTask_Beacon

SpecTasks == Init /\ [][NextTasks]_vars

(***************************************************************************)
(* SpecWdg: scheduling and the independent watchdog, one step per second   *)
(*                                                                         *)
(* A unit that hangs stays inside a call that never returns (the drivers   *)
(* and transmissions all wait with HAL_MAX_DELAY).  Every unit that is not *)
(* hung completes at least one turn of its loop per second; WatchdogTask   *)
(* runs when its 5 s delay has elapsed.  The IWDG, started by MX_IWDG_Init,*)
(* resets the MCU when IwdgTimeout seconds pass without a refresh.  The    *)
(* data the Sensor, Radiation and Comm loops move is not part of this      *)
(* specification.                                                          *)
(***************************************************************************)
Units == {"Sensor", "Radiation", "Comm", "Watchdog"}
WatchedUnits == {"Sensor", "Radiation", "Comm"}

UnitHang(u) ==
    /\ mcu = "run"
    /\ u \notin hung
    /\ hung' = hung \cup {u}
    /\ UNCHANGED <<sysVars, mainVars, queueVars, commVars, uartVars, hwVars, codecVars, obsVars, linkVars,
                   taskVars, ran, wdg_sleep, iwdg_left, disp, wireQueue, cmd_wire>>

\* A turn of the SensorTask, RadiationTask or CommTask loop.
UnitIterate(u) ==
    /\ mcu = "run"
    /\ u \notin hung
    /\ u \notin ran
    /\ ran' = ran \cup {u}
    /\ UNCHANGED <<sysVars, mainVars, queueVars, commVars, uartVars, hwVars, codecVars, obsVars, linkVars,
                   taskVars, hung, wdg_sleep, iwdg_left, disp, wireQueue, cmd_wire>>

\* WatchdogTask leaves vTaskDelay and runs its turn.
WatchdogTask_Scheduled ==
    /\ wdg_sleep = 0
    /\ WatchdogTask_Iterate

SecondElapses ==
    /\ mcu = "run"
    /\ iwdg_left > 0
    /\ "Watchdog" \in hung \/ wdg_sleep > 0
    /\ (WatchedUnits \ hung) \subseteq ran
    /\ iwdg_left' = iwdg_left - 1
    /\ wdg_sleep' = IF "Watchdog" \in hung \/ wdg_sleep = 0 THEN wdg_sleep
                    ELSE wdg_sleep - 1
    /\ ran' = {}
    /\ UNCHANGED <<sysVars, mainVars, queueVars, commVars, uartVars, hwVars, codecVars, obsVars, linkVars,
                   taskVars, hung, disp, wireQueue, cmd_wire>>

\* The IWDG down-counter reaches zero.
IwdgExpire ==
    /\ mcu = "run"
    /\ iwdg_left = 0
    /\ mcu' = "reset"
    /\ UNCHANGED <<sysVars, mainVars, queueVars, commVars, uartVars, pi_wake, tick, uart1_last,
                   codecVars, obsVars, linkVars, taskVars, schedVars, disp, wireQueue, cmd_wire>>

\* After a reset the program starts again from main().
Reboot ==
    /\ mcu = "reset"
    /\ system_state' = STATE_BOOT
    /\ current_telemetry' = ZeroTelemetry
    /\ boot_count' = 0
    /\ system_uptime' = 0
    /\ telemetryQueue' = <<>>
    /\ commandQueue' = <<>>
    /\ comm_pc' = "init"
    /\ tx_packet' = ZeroTelemetry
    /\ cmd' = Zeros(SizeofCommandPacket)
    /\ last_beacon' = 0
    /\ rx_cmd' = Zeros(SizeofCommandPacket)
    /\ rx_target' = "none"
    /\ rxCount' = 0
    /\ mcu' = "run"
    /\ pi_wake' = 0
    /\ tick' = 0
    /\ uart1_last' = NoFrame
    /\ sequence' = 0
    /\ radiation_pulse_count' = LE32(0)
    /\ last_count' = LE32(0)
    /\ hung' = {}
    /\ ran' = {}
    /\ wdg_sleep' = 0
    /\ iwdg_left' = IwdgTimeout
    /\ rx_buffer' = Zeros(UART_RX_BUFFER_SIZE)
    /\ rx_index' = 0
    /\ expected_length' = 0
    /\ packet_type' = 0
    /\ link' = <<>>
    /\ frameCount' = 0
    /\ noiseCount' = 0
    /\ disp' = NoDispatch
    /\ wire_frame' = <<>>
    /\ isr_put' = <<>>
    /\ feed' = NoFeed
    /\ wireQueue' = <<>>
    /\ cmd_wire' = <<>>
    /\ wdg_eval' = NoEval
    /\ beacon_chk' = NoBeaconCheck
    /\ rad_obs' = NoRad
    /\ put_obs' = NoPut
    /\ cmd_log' = NoLog
    /\ task_health' = <<0, 0, 0, 0>>
    /\ last_health_check' = 0
    /\ poll' = NoPoll

NextWdg ==
    \/ \E u \in Units : UnitHang(u)
    \/ \E u \in WatchedUnits : UnitIterate(u)
    \/ WatchdogTask_Scheduled
    \/ SecondElapses
    \/ IwdgExpire
    \/ Reboot

FairWdg ==
    /\ \A u \in WatchedUnits : WF_vars(UnitIterate(u))
    /\ WF_vars(WatchdogTask_Scheduled)
    /\ WF_vars(SecondElapses)
    /\ WF_vars(IwdgExpire)
    /\ WF_vars(Reboot)

SpecWdg == Init /\ [][NextWdg]_vars /\ FairWdg

(***************************************************************************)
(* Claims about the dispatcher (SpecCmd)                                   *)
(***************************************************************************)
DispatchedValid ==
    /\ disp.done
    /\ disp.cmd[1] = 170 /\ disp.cmd[2] = 86
    /\ CalculateChecksum(disp.cmd, 71) = disp.cmd[72] + 256 * disp.cmd[73]

\* C7: a checksum-valid Ping with sequence number s makes the dispatcher
\* transmit exactly the four bytes AA 57 01 (s mod 256) on huart1 and leaves
\* system_state and error_flags as they were.
C7_PingAck ==
    (DispatchedValid /\ disp.cmd[3] = 1) =>
        /\ Len(disp.tx) = 1
        /\ disp.tx[1].port = 1
        /\ disp.tx[1].bytes = <<170, 87, 1, (disp.cmd[4] + 256 * disp.cmd[5]) % 256>>
        /\ disp.post_state = disp.pre_state
        /\ disp.post_flags = disp.pre_flags
        /\ disp.wake = <<>>

\* a Ping whose sequence number does not fit one byte has been answered
C7_Witness ==
    /\ DispatchedValid /\ disp.cmd[3] = 1
    /\ disp.cmd[4] + 256 * disp.cmd[5] = 511
    /\ uart1_last.bytes = <<170, 87, 1, 255>>
    /\ system_state = STATE_BOOT

\* C8: a checksum-valid SetMode with parameter_length >= 1 stores
\* parameters[0] in system_state whatever the byte is, and with
\* parameter_length = 0 leaves system_state unchanged.
C8_SetMode ==
    (DispatchedValid /\ disp.cmd[3] = 4) =>
        /\ (disp.cmd[6] + 256 * disp.cmd[7] >= 1 => disp.post_state = disp.cmd[8])
        /\ (disp.cmd[6] + 256 * disp.cmd[7] = 0 => disp.post_state = disp.pre_state)
        /\ system_state = disp.post_state

\* SetMode has stored a byte that is no enumerated state
C8_Witness ==
    /\ DispatchedValid /\ disp.cmd[3] = 4
    /\ disp.cmd[6] + 256 * disp.cmd[7] = 65535
    /\ disp.cmd[8] = 255
    /\ system_state = 255

\* C9: whatever parameter_length says (65, 65535), ProcessCommand reads no
\* parameters[i] with i > 63.
C9_ParamReadsInBounds ==
    disp.cmd # <<>> => \A i \in disp.param_reads : i >= 0 /\ i <= 63

\* a checksum-valid SetMode announcing 65535 parameters has been dispatched
C9_Witness ==
    /\ DispatchedValid /\ disp.cmd[3] = 4
    /\ disp.cmd[6] + 256 * disp.cmd[7] = 65535
    /\ disp.param_reads # {}

\* C10 as claimed: a checksum-valid command records a fault iff its
\* identifier is none of 0x01..0x09; UpdateFirmware, SetSchedule and Beacon
\* have no effect at all, any other unrecognized identifier records a fault
\* and changes no state.
C10_FaultIffUndefinedId ==
    DispatchedValid =>
        LET id == disp.cmd[3]
            faulted == disp.post_flags # disp.pre_flags
        IN /\ (id \in 7..9 =>
                  /\ ~faulted
                  /\ disp.post_state = disp.pre_state
                  /\ disp.tx = <<>>)
           /\ (id \in 1..6 => ~faulted)
           /\ ((id \notin 1..9 /\ disp.pre_flags = 0) =>
                  faulted /\ disp.post_state = disp.pre_state)

(***************************************************************************)
(* Claims about the receive path (SpecCodec, SpecRx)                       *)
(***************************************************************************)
\* f is a whole Command frame (sync AA 56) as the link carried it
CommandOnWire(f) == Len(f) = 73 /\ f[1] = 170 /\ f[2] = 86

ChecksumOnWire(f) == CalculateChecksum(f, Len(f) - 2) = f[Len(f) - 1] + 256 * f[Len(f)]

\* the last byte of a frame that started in AwaitingSync1 has just been taken
FrameJustCompleted ==
    /\ feed.aligned
    /\ feed.frame # <<>>
    /\ feed.sent = Len(feed.frame)

\* C3 as claimed: the bytes of a checksum-valid Command packet p, received
\* one at a time by the callback of communication.c starting in
\* AwaitingSync1, put on the command queue a packet byte-for-byte equal to p.
C3_RoundTrip ==
    (FrameJustCompleted /\ CommandOnWire(feed.frame) /\ ChecksumOnWire(feed.frame)) =>
        isr_put = feed.frame

C5_BadChecksumFlagged ==
    (disp.done /\ CommandOnWire(disp.wire) /\ ~ChecksumOnWire(disp.wire)) =>
        /\ disp.post_state = disp.pre_state
        /\ disp.tx = <<>>
        /\ disp.wake = <<>>
        /\ mcu = "run"
        /\ BitAnd8(disp.post_flags, 3) = 3

\* C6 as claimed: a complete Telemetry-type frame (sync AA 55) with a wrong
\* checksum is dropped, leaves the codec in AwaitingSync1 and sets the UART
\* error flag in error_flags.
C6_CorruptTelemetryFlagged ==
    (FrameJustCompleted /\ Len(feed.frame) = 70 /\ feed.frame[2] = 85
        /\ ~ChecksumOnWire(feed.frame)) =>
        /\ isr_put = <<>>
        /\ rx_index = 0 /\ expected_length = 0
        /\ BitAnd8(current_telemetry.error_flags, 3) = 3

(***************************************************************************)
(* Claims about the watchdog and the telemetry frames (SpecWdg, SpecTasks) *)
(***************************************************************************)
\* C1: whenever exactly one of the Sensor, Radiation and Comm units is hung
\* and every other unit keeps being scheduled, the hardware watchdog
\* eventually resets the system.
C1_HangLeadsToReset ==
    \A u \in WatchedUnits :
        (hung = {u} /\ mcu = "run") ~> (mcu = "reset" \/ hung # {u})

\* C2: every Telemetry frame put on the ground link carries a checksum that
\* is the complement of the byte sum of the frame's first 68 bytes.
C2_TelemetryChecksumOnWire ==
    (uart1_last.kind = "telemetry") =>
        LET b == uart1_last.bytes
        IN CalculateChecksum(b, SizeofTelemetryPacket - 2) = U16At(b, SizeofTelemetryPacket - 1)

(***************************************************************************)
(* SpecHealth: SensorTask writes the readings, WatchdogTask evaluates its  *)
(* two threshold rules                                                      *)
(***************************************************************************)
\* 25.00, 70.00 and 70.01 C at 3401 mV; 25.00 and 70.01 C at 3399 mV
HealthInputs ==
    {<<TRUE, 2500, TRUE, 2111>>, <<TRUE, 7000, TRUE, 2111>>,
     <<TRUE, 7001, TRUE, 2111>>, <<TRUE, 2500, TRUE, 2110>>,
     <<TRUE, 7001, TRUE, 2110>>}

NextHealth ==
    \/ \E in \in HealthInputs :
          sequence < MaxHealthCycles /\ SensorTask_Iterate(in[1], in[2], in[3], in[4])
    \/ WatchdogTask_Iterate

SpecHealth == Init /\ [][NextHealth]_vars

\* C11: an evaluation with battery_voltage below BATTERY_CRITICAL sets
\* LowPower and invokes ShutdownPayload exactly once per crossing, that is not
\* again while the voltage has stayed below the threshold since the last
\* invocation; at or above the threshold the rule changes nothing and does
\* not invoke ShutdownPayload.
C11_ShutdownOncePerCrossing ==
    wdg_eval.seen =>
        /\ wdg_eval.low =>
              /\ wdg_eval.mid_state = STATE_LOW_POWER
              /\ wdg_eval.shutdown <=> ~wdg_eval.held_low
        /\ ~wdg_eval.low =>
              /\ wdg_eval.mid_state = wdg_eval.pre_state
              /\ ~wdg_eval.shutdown

\* A second evaluation in a row finds 3399 mV.
C11_Witness ==
    /\ wdg_eval.seen /\ wdg_eval.low /\ wdg_eval.held_low
    /\ current_telemetry.battery_voltage = 3399

\* C12: an evaluation with temperature_bme above 70 or below -20 ends with
\* system_state Safe and the temperature fault in error_flags; within
\* [-20, 70], bounds included, the temperature rule changes neither.
C12_TemperatureRule ==
    wdg_eval.seen =>
        IF wdg_eval.temp_centi > 7000 \/ wdg_eval.temp_centi < -2000
        THEN /\ wdg_eval.post_state = STATE_SAFE
             /\ BitAnd8(wdg_eval.post_flags, ERROR_TEMPERATURE) = ERROR_TEMPERATURE
        ELSE /\ wdg_eval.post_state = wdg_eval.mid_state
             /\ wdg_eval.post_flags = wdg_eval.pre_flags

\* An evaluation at 70.01 C has moved Boot to Safe and raised the fault.
C12_Witness ==
    /\ wdg_eval.seen /\ wdg_eval.temp_centi = 7001
    /\ wdg_eval.pre_state = STATE_BOOT /\ wdg_eval.post_state = STATE_SAFE
    /\ wdg_eval.pre_flags = 0

(***************************************************************************)
(* SpecMode: the periodic units, the receive interrupt and the dispatcher  *)
(* all acting on system_state and error_flags                               *)
(***************************************************************************)
\* 25.00 C and 70.01 C at 3401 mV; until the first reading battery_voltage
\* is 0, below the threshold
ModeSensorInputs == {<<TRUE, 2500, TRUE, 2111>>, <<TRUE, 7001, TRUE, 2111>>}

ModeCommands ==
    {ValidCommand(CMD_SET_MODE, 1, 1, STATE_NOMINAL),
     ValidCommand(CMD_CAPTURE_IMAGE, 1, 0, 0)}

NextMode ==
    \/ \E in \in ModeSensorInputs :
          sequence < MaxModeCycles /\ SensorTask_Iterate(in[1], in[2], in[3], in[4])
    \/ RadiationTask_Iterate
    \/ WatchdogTask_Iterate
    \/ \E p \in ModeCommands : rxCount < MaxRxPackets /\ UartRxCplt(p)
    \/ CommTask_Start
    \/ CommTask_GetTelemetry
    \/ CommTask_TransmitTelemetry
    \/ CommTask_GetCommand
    \/ ProcessCommand
    \/ ProcessCommand_CaptureEnd
    \/ CommTask_Beacon

SpecMode == Init /\ [][NextMode]_vars

\* C13: once system_state is Safe or LowPower, a step takes it out of
\* {Safe, LowPower} only if the step completes the dispatch of a SetMode or
\* CaptureImage command.
C13_SafeModesLatched ==
    [][(/\ system_state \in {STATE_SAFE, STATE_LOW_POWER}
        /\ system_state' \notin {STATE_SAFE, STATE_LOW_POWER})
       => (/\ comm_pc \in {"dispatch", "capture_wait"}
           /\ comm_pc' = "beacon"
           /\ disp'.done
           /\ CmdId(disp'.cmd) \in {CMD_SET_MODE, CMD_CAPTURE_IMAGE})]_vars

\* SetMode took the state from LowPower to Nominal, and WatchdogTask has
\* evaluated its rules since without moving it.
C13_Witness ==
    /\ disp.done /\ CmdId(disp.cmd) = CMD_SET_MODE
    /\ disp.pre_state = STATE_LOW_POWER /\ disp.post_state = STATE_NOMINAL
    /\ wdg_eval.seen /\ wdg_eval.pre_state = STATE_NOMINAL
    /\ system_state = STATE_NOMINAL

(***************************************************************************)
(* SpecBeacon: CommTask's loop while time passes and SetMode commands move *)
(* system_state                                                             *)
(***************************************************************************)
TickSteps == {29999, 30000, 30001}

BeaconCommands ==
    {ValidCommand(CMD_SET_MODE, 1, 1, v) : v \in {STATE_IDLE, STATE_NOMINAL, STATE_SAFE}}

NextBeacon ==
    \/ \E d \in TickSteps : tick + d <= MaxTick /\ TickAdvance(d)
    \/ \E p \in BeaconCommands : rxCount < MaxRxPackets /\ UartRxCplt(p)
    \/ CommTask_Start
    \/ CommTask_GetTelemetry
    \/ CommTask_GetCommand
    \/ ProcessCommand
    \/ CommTask_Beacon

SpecBeacon == Init /\ [][NextBeacon]_vars

\* C14: a beacon check in a state other than Nominal and Idle emits nothing,
\* whatever time has passed; a beacon check in Idle or Nominal with at least
\* 30000 ms since the last beacon, exactly 30000 ms included, emits exactly
\* one 6-byte beacon and sets the last-beacon time to the current time.
C14_BeaconCadence ==
    beacon_chk.seen =>
        /\ beacon_chk.state \notin {STATE_NOMINAL, STATE_IDLE} => beacon_chk.sent = <<>>
        /\ (beacon_chk.state \in {STATE_NOMINAL, STATE_IDLE} /\ beacon_chk.elapsed >= 30000)
              => /\ Len(beacon_chk.sent) = 1
                 /\ Len(beacon_chk.sent[1].bytes) = 6
                 /\ beacon_chk.last_after = beacon_chk.now

\* A check in Nominal 30001 ms after the last beacon has sent one.
C14_Witness ==
    /\ beacon_chk.seen /\ beacon_chk.state = STATE_NOMINAL /\ beacon_chk.elapsed = 30001
    /\ Len(beacon_chk.sent) = 1 /\ last_beacon = tick

(***************************************************************************)
(* SpecRad: the pulse interrupt and RadiationTask, entered right after a   *)
(* read of RadiationTask with the counter at 0, at 100 or 20 short of 2^32 *)
(***************************************************************************)
RadStart == {LE32(0), LE32(100), U32FromHalves(65516, 65535)}

InitRad ==
    /\ InitButCounters
    /\ radiation_pulse_count \in RadStart
    /\ last_count = radiation_pulse_count

NextRad ==
    \/ rad_obs.total < MaxRadPulses /\ RadiationPulse
    \/ RadiationTask_Iterate

SpecRad == InitRad /\ [][NextRad]_vars

\* C15: radiation_cps, 0 until RadiationTask writes it, is then the number of
\* pulses counted between its last two reads, (current - previous) modulo 2^32: 37 for
\* reads of 100 and then 137, and the same across a wrap of the counter.
C15_RadiationDelta ==
    /\ current_telemetry.radiation_cps = LE32(rad_obs.counted)
    /\ (last_count = LE32(137) /\ rad_obs.counted = rad_obs.total /\ rad_obs.total = 37)
          => current_telemetry.radiation_cps = LE32(37)

\* 37 pulses took the counter from 2^32 - 20 to 17, and RadiationTask has
\* read it.
C15_Witness ==
    /\ rad_obs.counted = 37
    /\ last_count = LE32(17)
    /\ current_telemetry.radiation_cps = LE32(37)

(***************************************************************************)
(* SpecQueue: SensorTask and the receive interrupt fill the two queues     *)
(* while CommTask drains them at its own pace                               *)
(***************************************************************************)
QueueSensorInput == <<TRUE, 2500, TRUE, 2111>>

QueueCommand == ValidCommand(CMD_PING, 1, 0, 0)

NextQueue ==
    \/ /\ sequence < MaxQueueCycles
       /\ SensorTask_Iterate(QueueSensorInput[1], QueueSensorInput[2],
                             QueueSensorInput[3], QueueSensorInput[4])
    \/ rxCount < MaxQueueCommands /\ UartRxCplt(QueueCommand)
    \/ CommTask_Start
    \/ CommTask_GetTelemetry
    \/ CommTask_TransmitTelemetry
    \/ CommTask_GetCommand
    \/ ProcessCommand
    \/ CommTask_Beacon

SpecQueue == Init /\ [][NextQueue]_vars

\* C16: the telemetry queue never holds more than 10 packets and the command
\* queue never more than 5; a put on a full queue leaves the queue as it was
\* and drops the new item, a put on a queue with room stores the item last.
C16_QueuesBounded ==
    /\ Len(telemetryQueue) <= 10
    /\ Len(commandQueue) <= 5
    /\ put_obs.done =>
          IF put_obs.full THEN put_obs.unchanged /\ ~put_obs.stored
          ELSE put_obs.stored

\* Both queues are full, the eleventh telemetry packet and the sixth command
\* packet were dropped, one of them by the last put.
C16_Witness ==
    /\ Len(telemetryQueue) = 10 /\ sequence = 11
    /\ Len(commandQueue) = 5 /\ rxCount = 6
    /\ put_obs.full /\ put_obs.unchanged

\* C17: the packets handed to ProcessCommand are the packets accepted onto
\* the command queue, each once and in the order accepted, and every packet
\* handed to ProcessCommand is one that was received over the link.
C17_DispatchedOnceInOrder ==
    /\ cmd_log.in_order
    /\ disp.cmd # <<>> => disp.cmd \in cmd_log.received

\* Two queued packets have been dispatched in the order they were queued.
C17_Witness ==
    /\ rxCount = 2 /\ commandQueue = <<>> /\ cmd_log.pending = <<>>
    /\ cmd_log.in_order /\ disp.done
    /\ disp.cmd \in cmd_log.received

(***************************************************************************)
(* SpecFlags: every caller of LogError at work: WatchdogTask on a hot      *)
(* reading, ProcessCommand on a bad checksum and on an unknown identifier  *)
(***************************************************************************)
FlagSensorInputs == {<<TRUE, 2500, TRUE, 2111>>, <<TRUE, 7001, TRUE, 2111>>}

FlagCommands ==
    {CorruptCommand(CMD_SET_MODE, 1, 1, STATE_NOMINAL, 1), ValidCommand(10, 1, 0, 0)}

NextFlags ==
    \/ \E in \in FlagSensorInputs :
          sequence < MaxModeCycles /\ SensorTask_Iterate(in[1], in[2], in[3], in[4])
    \/ RadiationTask_Iterate
    \/ WatchdogTask_Iterate
    \/ \E p \in FlagCommands : rxCount < MaxRxPackets /\ UartRxCplt(p)
    \/ CommTask_Start
    \/ CommTask_GetTelemetry
    \/ CommTask_TransmitTelemetry
    \/ CommTask_GetCommand
    \/ ProcessCommand
    \/ CommTask_Beacon

SpecFlags == Init /\ [][NextFlags]_vars

LiveSensorInput == <<TRUE, 2500, TRUE, 2111>>

LiveCommands == {ValidCommand(CMD_PING, 1, 0, 0), ValidCommand(CMD_GET_TELEMETRY, 1, 0, 0)}

\* a step of CommTask
CommTask_Step ==
    \/ CommTask_Start
    \/ CommTask_GetTelemetry
    \/ CommTask_TransmitTelemetry
    \/ CommTask_GetCommand
    \/ ProcessCommand
    \/ ProcessCommand_TransmitTelemetry
    \/ CommTask_Beacon

NextLive ==
    \/ /\ sequence < MaxLiveCycles
       /\ SensorTask_Iterate(LiveSensorInput[1], LiveSensorInput[2],
                             LiveSensorInput[3], LiveSensorInput[4])
    \/ \E p \in LiveCommands : rxCount < MaxRxPackets /\ UartRxCplt(p)
    \/ CommTask_Step

FairComm == WF_vars(CommTask_Step)

SpecLive == Init /\ [][NextLive]_vars /\ FairComm

\* C19: with CommTask scheduled fairly and no reset, the k-th packet accepted
\* onto the telemetry queue is eventually transmitted, the k-th packet
\* accepted onto the command queue is eventually handed to ProcessCommand,
\* and every turn of CommTask's loop reaches the beacon check.
C19_CommProgress ==
    [](/\ \A k \in 1..MaxLiveCycles :
             (cmd_log.tlm_accepted >= k) => <>(cmd_log.tlm_transmitted >= k)
       /\ \A k \in 1..MaxRxPackets :
             (cmd_log.dispatched + Len(cmd_log.pending) >= k)
                => <>(cmd_log.dispatched >= k)
       /\ (comm_pc = "tlm_get") => <>(comm_pc = "beacon"))

\* Both queues hold packets while CommTask is at the top of its loop.
C19_Witness ==
    /\ comm_pc = "tlm_get" /\ beacon_chk.seen
    /\ Len(telemetryQueue) = 2 /\ Len(commandQueue) = 2

\* C20: the command queue changes only when a frame that began AA 56
\* completes; a completed frame of type 55 queues nothing and leaves the codec
\* in AwaitingSync1 with the program state as it was; a byte other than 55
\* and 56 taken in AwaitingTypeByte puts the codec back in AwaitingSync1 and
\* queues nothing.
C20_OnlyCommandFramesQueued ==
    [][/\ commandQueue' # commandQueue =>
             /\ Len(wire_frame) = 72
             /\ wire_frame[1] = 170 /\ wire_frame[2] = 86
       /\ (FrameJustCompleted' /\ feed'.frame[2] = 85) =>
             /\ commandQueue' = commandQueue
             /\ isr_put' = <<>>
             /\ rx_index' = 0 /\ expected_length' = 0
             /\ mainVars' = mainVars
       /\ (rx_index = 1 /\ rx_buffer'[2] \notin {85, 86}) =>
             /\ rx_index' = 0 /\ expected_length' = 0
             /\ commandQueue' = commandQueue]_vars

\* A Telemetry frame has just completed without touching the queue, which
\* holds the Command frame received before it; a stray byte came in between.
C20_Witness ==
    /\ FrameJustCompleted /\ feed.frame[2] = SYNC2_TELEMETRY
    /\ Len(commandQueue) = 1 /\ noiseCount >= 1
    /\ AwaitingSync1

(***************************************************************************)
(* Claims about system_state                                                *)
(***************************************************************************)
\* C21: system_state is Boot until a unit has acted, and in every reachable
\* state it is one of the eight enumerated values Boot .. DataTx (0 .. 7).
C21_StateEnumerated ==
    /\ system_state \in {STATE_BOOT, STATE_IDLE, STATE_NOMINAL, STATE_SAFE,
                         STATE_LOW_POWER, STATE_EMERGENCY, STATE_IMAGE_CAPTURE,
                         STATE_DATA_TX}
    /\ (comm_pc = "init" /\ ~disp.done) => system_state = STATE_BOOT

\* A checksum-valid SetMode with parameters[0] = 8 has been dispatched.
C21_Witness ==
    /\ disp.done /\ ChecksumValid(disp.cmd) /\ CmdId(disp.cmd) = CMD_SET_MODE
    /\ CmdParamLen(disp.cmd) >= 1 /\ CmdParam(disp.cmd, 0) = 8
    /\ system_state = 8

(***************************************************************************)
(* SpecBoot: the four units after startup with every reading in range       *)
(* (25.00 C, 3401 mV) and no command on the link, while time passes         *)
(***************************************************************************)
NextBoot ==
    \/ /\ sequence < MaxBootCycles
       /\ SensorTask_Iterate(LiveSensorInput[1], LiveSensorInput[2],
                             LiveSensorInput[3], LiveSensorInput[4])
    \/ RadiationTask_Iterate
    \/ WatchdogTask_Iterate
    \/ \E d \in TickSteps : tick + d <= MaxTick /\ TickAdvance(d)
    \/ CommTask_Start
    \/ CommTask_GetTelemetry
    \/ CommTask_TransmitTelemetry
    \/ CommTask_GetCommand
    \/ CommTask_Beacon

SpecBoot == Init /\ [][NextBoot]_vars

\* C22: while no command is dispatched and no reading is beyond the battery
\* or temperature threshold, system_state stays Boot and no beacon is emitted.
C22_StaysBoot ==
    (~disp.done /\ ~disp.busy) =>
        /\ system_state = STATE_BOOT
        /\ beacon_chk.sent = <<>>

\* WatchdogTask has evaluated the record SensorTask filled with 3401 mV and
\* 25.00 C, and CommTask has made a beacon check more than 30000 ms after
\* startup.
C22_Witness ==
    /\ wdg_eval.seen /\ wdg_eval.eval_from = "conversion" /\ ~wdg_eval.low /\ ~wdg_eval.hot
    /\ beacon_chk.seen /\ beacon_chk.elapsed > 30000 /\ beacon_chk.sent = <<>>

(***************************************************************************)
(* SpecReset: CommTask dispatching a Reset command while SensorTask and the *)
(* receive interrupt keep filling its queues and time passes                *)
(***************************************************************************)
ResetCommands ==
    {ValidCommand(CMD_RESET, 1, 0, 0), ValidCommand(CMD_SET_MODE, 1, 1, STATE_NOMINAL)}

NextReset ==
    \/ /\ sequence < MaxSensorCycles
       /\ SensorTask_Iterate(LiveSensorInput[1], LiveSensorInput[2],
                             LiveSensorInput[3], LiveSensorInput[4])
    \/ \E p \in ResetCommands : rxCount < MaxResetCommands /\ UartRxCplt(p)
    \/ tick + 30001 <= MaxTick /\ TickAdvance(30001)
    \/ CommTask_Start
    \/ CommTask_GetTelemetry
    \/ CommTask_TransmitTelemetry
    \/ CommTask_GetCommand
    \/ ProcessCommand
    \/ ProcessCommand_Reset
    \/ CommTask_Beacon

\* HAL_Delay(100) elapses and CommTask goes on to NVIC_SystemReset.
FairReset == WF_vars(ProcessCommand_Reset)

SpecReset == Init /\ [][NextReset]_vars /\ FairReset

\* C23: once the dispatch of a checksum-valid Reset command has started, the
\* hardware reset eventually occurs, and until then the dispatch does not
\* return: CommTask dispatches no other command and sends no telemetry
\* frame and no beacon.
C23_ResetDoesNotReturn ==
    /\ [](comm_pc = "reset_wait" => <>(mcu = "reset"))
    /\ [][comm_pc = "reset_wait" =>
             /\ comm_pc' = "reset_wait"
             /\ disp' = disp
             /\ cmd' = cmd
             /\ cmd_log'.dispatched = cmd_log.dispatched
             /\ cmd_log'.tlm_transmitted = cmd_log.tlm_transmitted
             /\ uart1_last' = uart1_last
             /\ beacon_chk' = beacon_chk
             /\ last_beacon' = last_beacon]_vars

\* The reset has occurred inside the dispatch of a Reset command, in Nominal
\* with a beacon due, with a command and a telemetry packet still queued.
C23_Witness ==
    /\ mcu = "reset" /\ comm_pc = "reset_wait"
    /\ disp.busy /\ ChecksumValid(disp.cmd) /\ CmdId(disp.cmd) = CMD_RESET
    /\ commandQueue # <<>> /\ telemetryQueue # <<>>
    /\ system_state = STATE_NOMINAL /\ tick - last_beacon > 30000

(***************************************************************************)
(* Claims about the CaptureImage dispatch                                   *)
(***************************************************************************)
\* C24: the dispatch of a checksum-valid CaptureImage command drives the
\* payload-wake signal high when it starts and low when it completes, once
\* each and in that order; at completion the signal is low and system_state
\* is ImageCapture.
C24_CapturePulse ==
    [][/\ (/\ comm_pc = "dispatch" /\ comm_pc' # "dispatch"
           /\ SyncValid(cmd) /\ ChecksumValid(cmd) /\ CmdId(cmd) = CMD_CAPTURE_IMAGE)
          => /\ comm_pc' = "capture_wait"
             /\ pi_wake' = 1
             /\ disp'.busy /\ disp'.cmd = cmd /\ disp'.wake = <<1>>
       /\ (comm_pc = "capture_wait" /\ comm_pc' # "capture_wait")
          => /\ comm_pc' = "beacon"
             /\ pi_wake' = 0
             /\ system_state' = STATE_IMAGE_CAPTURE
             /\ disp'.done /\ disp'.cmd = disp.cmd /\ disp'.wake = <<1, 0>>
       /\ (comm_pc = "capture_wait" /\ comm_pc' = "capture_wait")
          => disp' = disp]_vars

\* A CaptureImage dispatch that began in LowPower has completed.
C24_Witness ==
    /\ disp.done /\ CmdId(disp.cmd) = CMD_CAPTURE_IMAGE /\ ChecksumValid(disp.cmd)
    /\ disp.pre_state = STATE_LOW_POWER
    /\ disp.wake = <<1, 0>> /\ pi_wake = 0
    /\ system_state = STATE_IMAGE_CAPTURE /\ comm_pc = "beacon"

(***************************************************************************)
(* system.c: the liveness poll                                              *)
(*                                                                          *)
(* SYSTEM_CheckHealth has no caller in the repository; it is modelled as    *)
(* called at any moment.  running is the set of units for which            *)
(* osThreadGetState reports osThreadRunning at the call.                    *)
(***************************************************************************)
\* (a poll that counts every unit as healthy, whatever its thread state)
HealthBit_Always(u, running) == 1

HealthBit(u, running) == IF u \in running THEN 1 ELSE 0

SYSTEM_CheckHealth(running) ==
    /\ mcu = "run"
    /\ LET due == (tick - last_health_check) > 60000
       IN /\ task_health' = IF due
                            THEN <<HealthBit("Sensor", running), HealthBit("Radiation", running),
                                   HealthBit("Comm", running), HealthBit("Watchdog", running)>>
                            ELSE task_health
          /\ last_health_check' = IF due THEN tick ELSE last_health_check
          /\ poll' = [poll EXCEPT !.seen = TRUE,
                                  !.elapsed = tick - last_health_check,
                                  !.sampled = due,
                                  !.before = task_health,
                                  !.after = task_health',
                                  !.running = IF due THEN running ELSE @]
    /\ UNCHANGED <<mainVars, queueVars, commVars, uartVars, hwVars, codecVars, obsVars,
                   linkVars, taskVars, schedVars, disp, wireQueue, cmd_wire>>

\* (a report that is 1 as soon as one unit was running)
SYSTEM_CheckTaskHealth_Any ==
    IF task_health[1] # 0 \/ task_health[2] # 0 \/ task_health[3] # 0 \/ task_health[4] # 0
    THEN 1 ELSE 0

\* task_health[0] && task_health[1] && task_health[2] && task_health[3]
SYSTEM_CheckTaskHealth ==
    IF task_health[1] # 0 /\ task_health[2] # 0 /\ task_health[3] # 0 /\ task_health[4] # 0
    THEN 1 ELSE 0

\* A caller reads SYSTEM_CheckTaskHealth().
ReadTaskHealth ==
    /\ mcu = "run"
    /\ poll' = [poll EXCEPT !.asked = TRUE, !.returned = SYSTEM_CheckTaskHealth]
    /\ UNCHANGED <<task_health, last_health_check, mainVars, queueVars, commVars,
                   uartVars, hwVars, codecVars, obsVars, linkVars, taskVars, schedVars,
                   disp, wireQueue, cmd_wire>>

(***************************************************************************)
(* SpecSys: the poll called at any moment while time passes, with any set   *)
(* of threads reported running                                              *)
(***************************************************************************)
PollTickSteps == {60000, 60001}

NextSys ==
    \/ \E d \in PollTickSteps : tick + d <= MaxPollTick /\ TickAdvance(d)
    \/ \E running \in SUBSET Units : SYSTEM_CheckHealth(running)
    \/ ReadTaskHealth

SpecSys == Init /\ [][NextSys]_vars

\* C25: SYSTEM_CheckTaskHealth returns the AND of the four bits of the last
\* sample; SYSTEM_CheckHealth samples exactly when more than 60000 ms have
\* passed since the previous sample, otherwise it leaves the health vector
\* as it was; and a poll changes nothing but the health vector and its time.
C25_HealthPoll ==
    /\ [](/\ SYSTEM_CheckTaskHealth = (IF poll.running = Units THEN 1 ELSE 0)
          /\ poll.asked /\ poll.returned = 1 => poll.seen
          /\ poll.seen => /\ poll.sampled <=> poll.elapsed > 60000
                          /\ ~poll.sampled => poll.after = poll.before)
    /\ [][/\ poll'.returned # poll.returned => poll'.returned = SYSTEM_CheckTaskHealth
          /\ task_health' # task_health =>
                /\ tick - last_health_check > 60000
                /\ last_health_check' = tick
          /\ <<task_health, last_health_check, poll>>' # <<task_health, last_health_check, poll>>
                => /\ <<mainVars, queueVars, commVars, uartVars, hwVars>>'
                        = <<mainVars, queueVars, commVars, uartVars, hwVars>>
                   /\ <<taskVars, schedVars>>' = <<taskVars, schedVars>>]_vars

\* A second sample, 60001 ms after the first, found all four threads running
\* where the first had found only two; the report read since is 1.
C25_Witness ==
    /\ poll.seen /\ poll.sampled /\ poll.elapsed = 60001
    /\ last_health_check = 120002
    /\ poll.before = <<1, 0, 1, 0>> /\ poll.after = <<1, 1, 1, 1>>
    /\ poll.asked /\ poll.returned = 1

(***************************************************************************)
(* SpecSysOne: the poll on a scheduler with one running thread at a time:   *)
(* at each call at most one of the four units is reported running (the      *)
(* caller, if it is one of them)                                            *)
(***************************************************************************)
NextSysOne ==
    \/ \E d \in PollTickSteps : tick + d <= MaxPollTick /\ TickAdvance(d)
    \/ \E running \in {{}} \cup {{u} : u \in Units} : SYSTEM_CheckHealth(running)
    \/ ReadTaskHealth

SpecSysOne == Init /\ [][NextSysOne]_vars

\* C30: with one running thread at a time, after any poll at most one of the
\* four health bits is 1, and SYSTEM_CheckTaskHealth returns 0 in every
\* reachable state.
C30_HealthNeverAllSet ==
    /\ task_health[1] + task_health[2] + task_health[3] + task_health[4] <= 1
    /\ SYSTEM_CheckTaskHealth = 0
    /\ poll.asked => poll.returned = 0

\* Two samples have been taken, the last one with the Comm unit running, and
\* the report read since is 0.
C30_Witness ==
    /\ poll.seen /\ poll.sampled /\ poll.running = {"Comm"}
    /\ last_health_check = 120002
    /\ poll.before = <<0, 0, 0, 1>> /\ task_health = <<0, 0, 1, 0>>
    /\ poll.asked /\ poll.returned = 0

(***************************************************************************)
(* Claims about the units interleaved                                       *)
(***************************************************************************)
\* C26: WatchdogTask forces LowPower and shuts the payload down only on a
\* battery reading below 3400 mV that SensorTask stored from a completed ADC
\* conversion, never on the zero-initialised record nor on the 0 of a failed
\* conversion.
C26_LowPowerOnlyOnMeasuredLow ==
    (wdg_eval.seen /\ wdg_eval.low) =>
        /\ wdg_eval.eval_from = "conversion"
        /\ sequence > 0

\* WatchdogTask has forced LowPower from Boot and shut the payload down on
\* the 0 mV that SensorTask stored for a failed conversion.
C26_Witness ==
    /\ wdg_eval.seen /\ wdg_eval.low /\ wdg_eval.shutdown
    /\ wdg_eval.eval_from = "failure" /\ current_telemetry.battery_voltage = 0
    /\ wdg_eval.pre_state = STATE_BOOT /\ system_state = STATE_LOW_POWER

\* C27: system_state leaves {Safe, LowPower} only by a step that completes
\* the dispatch of a command, and not of a command whose dispatch began
\* before the state became Safe or LowPower: a CaptureImage dispatch that
\* was waiting in its wake pulse while WatchdogTask set the safing state
\* leaves that state in place.
C27_SafingNotOverwritten ==
    [][(/\ system_state \in {STATE_SAFE, STATE_LOW_POWER}
        /\ system_state' \notin {STATE_SAFE, STATE_LOW_POWER})
       => /\ comm_pc \in {"dispatch", "capture_wait"}
          /\ comm_pc' = "beacon"
          /\ ~(disp.busy /\ disp.pre_state \notin {STATE_SAFE, STATE_LOW_POWER})]_vars

\* A CaptureImage dispatch began in Boot; while it waited, WatchdogTask found
\* 70.01 C at 3401 mV and set Safe; the dispatch then set ImageCapture.
C27_Witness ==
    /\ disp.done /\ CmdId(disp.cmd) = CMD_CAPTURE_IMAGE /\ disp.pre_state = STATE_BOOT
    /\ wdg_eval.seen /\ wdg_eval.hot /\ ~wdg_eval.low
    /\ wdg_eval.pre_state = STATE_BOOT /\ wdg_eval.post_state = STATE_SAFE
    /\ system_state = STATE_IMAGE_CAPTURE

\* C28: every packet on the command queue is the packet that was received
\* when the callback queued it, the first one included; and while the armed
\* reception writes into CommTask's cmd, CommTask neither fills cmd from the
\* queue nor has it inside ProcessCommand.
C28_CallbackQueuesReceived ==
    /\ commandQueue = wireQueue
    /\ rx_target = "cmd" =>
          /\ commandQueue = <<>>
          /\ comm_pc \in {"tlm_get", "tlm_tx", "cmd_get", "beacon"}

\* The first reception after boot has completed: the callback has queued 73
\* zero bytes where a SetMode command was received.
C28_Witness ==
    /\ rxCount = 1 /\ rx_target = "rx_cmd"
    /\ commandQueue = <<Zeros(SizeofCommandPacket)>>
    /\ Len(wireQueue) = 1 /\ CmdId(wireQueue[1]) = CMD_SET_MODE
    /\ cmd = wireQueue[1]

\* C29: an evaluation that finds both battery_voltage below 3400 mV and
\* temperature_bme outside [-20, 70] invokes ShutdownPayload, writes LowPower
\* and then Safe, and ends in Safe; so does every later evaluation of the
\* same readings.
C29_TemperatureRuleLast ==
    (wdg_eval.seen /\ wdg_eval.low /\ wdg_eval.hot) =>
        /\ wdg_eval.shutdown
        /\ wdg_eval.mid_state = STATE_LOW_POWER
        /\ wdg_eval.post_state = STATE_SAFE
        /\ system_state = STATE_SAFE
        /\ pi_wake = 0

\* A second evaluation in a row of 3399 mV and 70.01 C: it began in Safe,
\* wrote LowPower, shut the payload down again and ended in Safe.
C29_Witness ==
    /\ wdg_eval.seen /\ wdg_eval.low /\ wdg_eval.hot /\ wdg_eval.held_low
    /\ wdg_eval.temp_centi = 7001 /\ current_telemetry.battery_voltage = 3399
    /\ wdg_eval.pre_state = STATE_SAFE /\ wdg_eval.mid_state = STATE_LOW_POWER
    /\ wdg_eval.shutdown /\ system_state = STATE_SAFE

====
